---- MODULE Spec2Model ----
(***************************************************************************)
(* Model of src/main.py: the LINE webhook callback and handle_message,     *)
(* the message router that triages an inbound text event, calls the        *)
(* Gemini image / text generation APIs and replies through the LINE reply  *)
(* API.  Strings the router inspects (message text, prompts) are sequences *)
(* of characters, so that strip / startswith / replace / in are            *)
(* computed as Python computes them.                                       *)
(***************************************************************************)
EXTENDS Integers, Sequences, FiniteSets, TLC

(* ------------------------------ bounds --------------------------------- *)

\* Longest inbound message text, in words of Words, of a single delivery.
MaxWords == 3

\* Identifiers uuid.uuid4() can still draw (one per image file).
MaxUuid == 3

(* --------------------------- string literals --------------------------- *)

\* The module is written in ASCII; each CJK character of the source is one
\* element of a sequence, named by its code point: U+756B U+5716 are the
\* "draw picture" of the command, U+52A9 U+624B the "assistant" trigger.

\* The literal of lines 50-51: "/" U+756B U+5716.
IMAGE_COMMAND == <<"/", "U+756B", "U+5716">>

\* trigger_word (line 94): U+52A9 U+624B.
trigger_word == <<"U+52A9", "U+624B">>

\* Characters str.strip() removes; the messages of the model use the space.
Whitespace == {" ", "\t", "\n"}

\* Text of the fallback reply of the image branch (line 89).
IMAGE_FALLBACK == "image generation failed... (line 89 literal)"

\* Text of the fallback reply of the keyword branch (line 117).
TEXT_FALLBACK == "brain short-circuited, try again later (line 117 literal)"

(* ------------------------- Python str operations ----------------------- *)

\* s[i:] for a 1-based i.
Drop(s, i) == SubSeq(s, i, Len(s))

\* s.startswith(p)
StartsWith(s, p) == Len(s) >= Len(p) /\ SubSeq(s, 1, Len(p)) = p

\* s.find(p), 1-based; 0 when p does not occur in s.
Find(s, p) ==
  LET hits == {i \in 1..(Len(s) - Len(p) + 1) : SubSeq(s, i, i + Len(p) - 1) = p}
  IN  IF hits = {} THEN 0 ELSE CHOOSE i \in hits : \A j \in hits : i <= j

\* p in s
Contains(s, p) == Find(s, p) # 0

\* s.replace(old, new, 1): the first occurrence only.
ReplaceFirst(s, old, new) ==
  LET i == Find(s, old)
  IN  IF i = 0 THEN s
      ELSE SubSeq(s, 1, i - 1) \o new \o Drop(s, i + Len(old))

\* s.replace(old, new): every non-overlapping occurrence, in one scan from
\* the left; text produced by a replacement is not scanned again.
RECURSIVE ReplaceAll(_, _, _)
ReplaceAll(s, old, new) ==
  LET i == Find(s, old)
  IN  IF i = 0 THEN s
      ELSE SubSeq(s, 1, i - 1) \o new \o ReplaceAll(Drop(s, i + Len(old)), old, new)

RECURSIVE LStrip(_)
LStrip(s) == IF s # <<>> /\ Head(s) \in Whitespace THEN LStrip(Tail(s)) ELSE s

RECURSIVE RStrip(_)
RStrip(s) ==
  IF s # <<>> /\ s[Len(s)] \in Whitespace THEN RStrip(SubSeq(s, 1, Len(s) - 1)) ELSE s

\* s.strip()
Strip(s) == LStrip(RStrip(s))

(* ------------------------------ inputs --------------------------------- *)

\* Pieces inbound message texts are built from: the command prefix, the
\* trigger word, its two characters on their own, a space, a letter.
Words == {IMAGE_COMMAND, trigger_word, <<"U+52A9">>, <<"U+624B">>, <<" ">>, <<"a">>}

RECURSIVE Texts(_)
Texts(n) ==
  IF n = 0 THEN {<<>>}
  ELSE Texts(n - 1) \cup {t \o w : t \in Texts(n - 1), w \in Words}

\* Message texts of the deliveries that are handled concurrently.
ConcurrentTexts ==
  { IMAGE_COMMAND \o <<"a">>,
    IMAGE_COMMAND \o trigger_word,
    trigger_word \o <<"a">> }

\* Reply tokens of the deliveries that are handled concurrently.
ConcurrentTokens == {1, 2}

\* request.host_url of the deployment (line 75).
HostUrl == "https://bot.example/"

\* Bytes the image API can return as inline_data.data.
ImageBytes == {"PNG-A", "PNG-B"}

\* Texts the text API can return as response.text.
GeneratedTexts == {"answer-A", "answer-B"}

\* Outcomes of image_model.generate_content: it raises, it answers without
\* an image part (a refusal), or it answers with image bytes.
ImageApiResults ==
  {[kind |-> "raise", data |-> ""], [kind |-> "empty", data |-> ""]}
    \cup {[kind |-> "image", data |-> b] : b \in ImageBytes}

\* Outcomes of model.generate_content(prompt) followed by response.text.
TextApiResults ==
  {[kind |-> "raise", text |-> ""]} \cup {[kind |-> "text", text |-> x] : x \in GeneratedTexts}

\* A file that is in static/ before any request, named by an earlier uuid.
OldFile == "0.png"

(* ------------------------------- state --------------------------------- *)

VARIABLES
  events,           \* reply token -> the MessageEvent delivered with it
  pc,               \* reply token -> position of the request handling it
  user_msg,         \* local of handle_message (line 47)
  prompt,           \* local of handle_message (lines 51, 98)
  image_data,       \* local of handle_message (line 63)
  filename,         \* local of handle_message (line 67)
  reply_text,       \* local of handle_message (line 106)
  uuids,            \* identifiers uuid.uuid4() has drawn so far
  static,           \* the static directory: file name -> content
  file_ops,         \* reply token -> its open and write calls (lines 70-71)
  image_api_calls,  \* reply token -> calls of the image generation API
  text_api_calls,   \* reply token -> calls of the text generation API
  reply_calls       \* reply token -> calls of line_bot_api.reply_message

vars ==
  <<events, pc, user_msg, prompt, image_data, filename, reply_text, uuids,
    static, file_ops, image_api_calls, text_api_calls, reply_calls>>

locals == <<user_msg, prompt, image_data, filename, reply_text>>

Tokens == DOMAIN events

\* TextSendMessage(text=...)
TextSendMessage(text) ==
  [type |-> "text", text |-> text, original_content_url |-> "", preview_image_url |-> ""]

\* ImageSendMessage(original_content_url=..., preview_image_url=...)
ImageSendMessage(original, preview) ==
  [type |-> "image", text |-> "", original_content_url |-> original,
   preview_image_url |-> preview]

\* State after module initialisation (lines 9-29) with the deliveries evs
\* about to reach the callback.
InitWith(evs) ==
  /\ events = evs
  /\ pc = [t \in DOMAIN evs |-> "callback"]
  /\ user_msg = [t \in DOMAIN evs |-> <<>>]
  /\ prompt = [t \in DOMAIN evs |-> <<>>]
  /\ image_data = [t \in DOMAIN evs |-> ""]
  /\ filename = [t \in DOMAIN evs |-> ""]
  /\ reply_text = [t \in DOMAIN evs |-> ""]
  /\ uuids = {}
  /\ static = (OldFile :> "OLD")
  /\ file_ops = [t \in DOMAIN evs |-> <<>>]
  /\ image_api_calls = [t \in DOMAIN evs |-> <<>>]
  /\ text_api_calls = [t \in DOMAIN evs |-> <<>>]
  /\ reply_calls = [t \in DOMAIN evs |-> <<>>]

\* One delivery, any message text of up to MaxWords words.
Init ==
  \E txt \in Texts(MaxWords) :
    InitWith([t \in {1} |-> [text |-> txt, reply_token |-> t, host_url |-> HostUrl]])

\* Two deliveries, each handled on its own request thread.
InitConcurrent ==
  \E txts \in [ConcurrentTokens -> ConcurrentTexts] :
    InitWith([t \in ConcurrentTokens |->
                [text |-> txts[t], reply_token |-> t, host_url |-> HostUrl]])

(* ------------------- expressions of handle_message --------------------- *)

\* Line 50 with the prefix looked for anywhere in the message.
IsImageCommand_Anywhere(msg) == Contains(msg, IMAGE_COMMAND)

\* Line 50: user_msg.startswith(IMAGE_COMMAND)
IsImageCommand(msg) == StartsWith(msg, IMAGE_COMMAND)

\* Line 51: user_msg.replace(IMAGE_COMMAND, "", 1).strip()
ImagePrompt(msg) == Strip(ReplaceFirst(msg, IMAGE_COMMAND, <<>>))

\* Line 96: trigger_word in user_msg
HasTrigger(msg) == Contains(msg, trigger_word)

\* Line 98 with a count of 1 given to replace.
TextPrompt_FirstOnly(msg) == Strip(ReplaceFirst(msg, trigger_word, <<>>))

\* Line 98: user_msg.replace(trigger_word, "").strip()
TextPrompt(msg) == Strip(ReplaceAll(msg, trigger_word, <<>>))

\* Lines 52 and 100 with the test left out.
IsEmptyPrompt_Never(p) == FALSE

\* Lines 52 and 100: not prompt
IsEmptyPrompt(p) == p = <<>>

\* Line 60 with the test left out.
NoImagePayload_Unchecked(response) == FALSE

\* Line 60: not response.parts or not response.parts[0].inline_data
NoImagePayload(response) == response.kind # "image"

\* Line 67 with one name for every image.
Filename_Fixed(u) == "image.png"

\* Line 67: the name of the new file, from the identifier uuid4() drew.
Filename(u) == ToString(u) \o ".png"

\* Line 75: request.host_url + 'static/' + filename
ImageUrl(host_url, name) == host_url \o "static/" \o name

\* Where control goes when the image branch has replied (after lines 83 and
\* 90): the function does not return, line 94 is next.
AfterImageBranch == "keyword"

(* ------------------------------ actions -------------------------------- *)

\* reply_calls with one more call of line_bot_api.reply_message for t.
Replied(t, message, ok) ==
  [reply_calls EXCEPT ![t] =
     Append(@, [reply_token |-> events[t].reply_token, message |-> message, ok |-> ok])]

\* An entry of file_ops[t]: request t called open or write on
\* static/<name>; existed tells whether a file of that name was there
\* before the call.
FileOp(t, op, name, ok) ==
  [op |-> op, path |-> name, ok |-> ok, existed |-> name \in DOMAIN static]

\* Lines 36-40: the callback hands the decoded event to handle_message.
Callback(t) ==
  /\ pc[t] = "callback"
  /\ pc' = [pc EXCEPT ![t] = "handle_message"]
  /\ UNCHANGED <<events, locals, uuids, static, file_ops, image_api_calls,
                 text_api_calls, reply_calls>>

\* Lines 47-53: trim the text, test for the image command, build its prompt.
HandleMessage(t) ==
  /\ pc[t] = "handle_message"
  /\ LET msg == Strip(events[t].text)
     IN  /\ user_msg' = [user_msg EXCEPT ![t] = msg]
         /\ IF IsImageCommand(msg)
            THEN /\ prompt' = [prompt EXCEPT ![t] = ImagePrompt(msg)]
                 /\ pc' = [pc EXCEPT ![t] =
                             IF IsEmptyPrompt(ImagePrompt(msg)) THEN "return"
                             ELSE "image_generate"]
            ELSE /\ prompt' = prompt
                 /\ pc' = [pc EXCEPT ![t] = "keyword"]
  /\ UNCHANGED <<events, image_data, filename, reply_text, uuids, static,
                 file_ops, image_api_calls, text_api_calls, reply_calls>>

\* Lines 54-63: call the image API with the prompt and take the image bytes;
\* an API error or an answer without image raises into line 85.
ImageGenerate(t) ==
  /\ pc[t] = "image_generate"
  /\ \E response \in ImageApiResults :
       /\ image_api_calls' = [image_api_calls EXCEPT ![t] =
                                Append(@, [prompt |-> prompt[t], result |-> response])]
       /\ IF response.kind = "raise" \/ NoImagePayload(response)
          THEN /\ pc' = [pc EXCEPT ![t] = "image_except"]
               /\ image_data' = image_data
          ELSE /\ pc' = [pc EXCEPT ![t] = "image_open"]
               /\ image_data' = [image_data EXCEPT ![t] = response.data]
  /\ UNCHANGED <<events, user_msg, prompt, filename, reply_text, uuids, static,
                 file_ops, text_api_calls, reply_calls>>

\* Lines 67-70: draw an identifier, name the file, open it for writing.
\* open(..., "wb") creates the file empty (or empties it); when it fails
\* nothing is created and the error is raised into line 85.
ImageOpen(t) ==
  /\ pc[t] = "image_open"
  /\ \E u \in (1..MaxUuid) \ uuids :
       LET name == Filename(u)
       IN  /\ uuids' = uuids \cup {u}
           /\ filename' = [filename EXCEPT ![t] = name]
           /\ \E ok \in BOOLEAN :
                /\ file_ops' = [file_ops EXCEPT ![t] = Append(@, FileOp(t, "open", name, ok))]
                /\ static' = IF ok
                             THEN [f \in DOMAIN static \cup {name} |->
                                     IF f = name THEN "" ELSE static[f]]
                             ELSE static
                /\ pc' = [pc EXCEPT ![t] = IF ok THEN "image_write" ELSE "image_except"]
  /\ UNCHANGED <<events, user_msg, prompt, image_data, reply_text,
                 image_api_calls, text_api_calls, reply_calls>>

\* Line 71 and the close of the with block: the bytes reach the file, or
\* the write fails, leaves the file short and raises into line 85.
ImageWrite(t) ==
  /\ pc[t] = "image_write"
  /\ \E ok \in BOOLEAN :
       /\ file_ops' = [file_ops EXCEPT ![t] =
                         Append(@, FileOp(t, "write", filename[t], ok))]
       /\ static' = IF ok THEN [static EXCEPT ![filename[t]] = image_data[t]] ELSE static
       /\ pc' = [pc EXCEPT ![t] = IF ok THEN "image_reply" ELSE "image_except"]
  /\ UNCHANGED <<events, locals, uuids, image_api_calls, text_api_calls, reply_calls>>

\* Lines 75-83: build the public URL and reply with the image; a reply that
\* fails raises inside the try block, into line 85.
ImageReply(t) ==
  /\ pc[t] = "image_reply"
  /\ LET image_url == ImageUrl(events[t].host_url, filename[t])
     IN  \E ok \in BOOLEAN :
           /\ reply_calls' = Replied(t, ImageSendMessage(image_url, image_url), ok)
           /\ pc' = [pc EXCEPT ![t] = IF ok THEN AfterImageBranch ELSE "image_except"]
  /\ UNCHANGED <<events, locals, uuids, static, file_ops, image_api_calls,
                 text_api_calls>>

\* Lines 85-90 with an except block that only logs.
ImageExcept_Silent(t) ==
  /\ pc[t] = "image_except"
  /\ pc' = [pc EXCEPT ![t] = AfterImageBranch]
  /\ UNCHANGED <<events, locals, uuids, static, file_ops, image_api_calls,
                 text_api_calls, reply_calls>>

\* Lines 85-90: the handler of every exception of the image branch replies
\* with the fixed text; a reply that fails here leaves handle_message.
ImageExcept(t) ==
  /\ pc[t] = "image_except"
  /\ \E ok \in BOOLEAN :
       /\ reply_calls' = Replied(t, TextSendMessage(IMAGE_FALLBACK), ok)
       /\ pc' = [pc EXCEPT ![t] = IF ok THEN AfterImageBranch ELSE "raise"]
  /\ UNCHANGED <<events, locals, uuids, static, file_ops, image_api_calls,
                 text_api_calls>>

\* Lines 94-101: test for the trigger word and build the text prompt.
Keyword(t) ==
  /\ pc[t] = "keyword"
  /\ IF HasTrigger(user_msg[t])
     THEN /\ prompt' = [prompt EXCEPT ![t] = TextPrompt(user_msg[t])]
          /\ pc' = [pc EXCEPT ![t] =
                      IF IsEmptyPrompt(TextPrompt(user_msg[t])) THEN "return"
                      ELSE "text_generate"]
     ELSE /\ prompt' = prompt
          /\ pc' = [pc EXCEPT ![t] = "return"]
  /\ UNCHANGED <<events, user_msg, image_data, filename, reply_text, uuids, static,
                 file_ops, image_api_calls, text_api_calls, reply_calls>>

\* Lines 105-106: call the text API and read response.text.
TextGenerate(t) ==
  /\ pc[t] = "text_generate"
  /\ \E response \in TextApiResults :
       /\ text_api_calls' = [text_api_calls EXCEPT ![t] =
                               Append(@, [prompt |-> prompt[t], result |-> response])]
       /\ IF response.kind = "raise"
          THEN /\ pc' = [pc EXCEPT ![t] = "text_except"]
               /\ reply_text' = reply_text
          ELSE /\ pc' = [pc EXCEPT ![t] = "text_reply"]
               /\ reply_text' = [reply_text EXCEPT ![t] = response.text]
  /\ UNCHANGED <<events, user_msg, prompt, image_data, filename, uuids, static,
                 file_ops, image_api_calls, reply_calls>>

\* Lines 109-112: reply with the generated text; a reply that fails raises
\* inside the try block, into line 113.
TextReply(t) ==
  /\ pc[t] = "text_reply"
  /\ \E ok \in BOOLEAN :
       /\ reply_calls' = Replied(t, TextSendMessage(reply_text[t]), ok)
       /\ pc' = [pc EXCEPT ![t] = IF ok THEN "return" ELSE "text_except"]
  /\ UNCHANGED <<events, locals, uuids, static, file_ops, image_api_calls,
                 text_api_calls>>

\* Lines 113-118: the handler of every exception of the keyword branch.
TextExcept(t) ==
  /\ pc[t] = "text_except"
  /\ \E ok \in BOOLEAN :
       /\ reply_calls' = Replied(t, TextSendMessage(TEXT_FALLBACK), ok)
       /\ pc' = [pc EXCEPT ![t] = IF ok THEN "return" ELSE "raise"]
  /\ UNCHANGED <<events, locals, uuids, static, file_ops, image_api_calls,
                 text_api_calls>>

\* Lines 40-43: handle_message is over; the callback answers 'OK', or the
\* exception that left handle_message makes the web server answer 500.
CallbackReturn(t) ==
  /\ pc[t] \in {"return", "raise"}
  /\ pc' = [pc EXCEPT ![t] = IF pc[t] = "return" THEN "ok200" ELSE "error500"]
  /\ UNCHANGED <<events, locals, uuids, static, file_ops, image_api_calls,
                 text_api_calls, reply_calls>>

Next ==
  \/ \E t \in Tokens : Callback(t)
  \/ \E t \in Tokens : HandleMessage(t)
  \/ \E t \in Tokens : ImageGenerate(t)
  \/ \E t \in Tokens : ImageOpen(t)
  \/ \E t \in Tokens : ImageWrite(t)
  \/ \E t \in Tokens : ImageReply(t)
  \/ \E t \in Tokens : ImageExcept(t)
  \/ \E t \in Tokens : Keyword(t)
  \/ \E t \in Tokens : TextGenerate(t)
  \/ \E t \in Tokens : TextReply(t)
  \/ \E t \in Tokens : TextExcept(t)
  \/ \E t \in Tokens : CallbackReturn(t)

\* One webhook delivery.
Spec == Init /\ [][Next]_vars

\* Several deliveries, each on its own request thread, interleaved.
SpecConcurrent == InitConcurrent /\ [][Next]_vars

(* --------------------- vocabulary of the properties -------------------- *)

\* The message text of the event, as received.
RawText(t) == events[t].text

\* handle_message is over for t, by a return or by an exception.
Over(t) == pc[t] \in {"return", "raise", "ok200", "error500"}

\* handle_message is over for t and no exception left it.
Returned(t) == pc[t] \in {"return", "ok200"}

\* Messages of the reply calls made for t, in order.
Replies(t) == [i \in DOMAIN reply_calls[t] |-> reply_calls[t][i].message]

\* Every reply call made for t so far succeeded.
AllRepliesOk(t) == \A i \in DOMAIN reply_calls[t] : reply_calls[t][i].ok

\* The text after the image command of a message that starts with it.
AfterCommand(txt) == Strip(Drop(txt, Len(IMAGE_COMMAND) + 1))

\* The image generation failed for t: the API raised or sent no image, or
\* opening or writing the file failed.
ImageGenerationFailed(t) ==
  \/ \E i \in DOMAIN image_api_calls[t] : image_api_calls[t][i].result.kind # "image"
  \/ \E i \in DOMAIN file_ops[t] : ~file_ops[t][i].ok

\* The text generation failed for t: the API raised.
TextGenerationFailed(t) ==
  \E i \in DOMAIN text_api_calls[t] : text_api_calls[t][i].result.kind = "raise"

\* Request t opened (created) the file static/<path>.
Opened(t, path) ==
  \E i \in DOMAIN file_ops[t] :
    file_ops[t][i].op = "open" /\ file_ops[t][i].ok /\ file_ops[t][i].path = path

\* Request t wrote its image bytes to static/<path> without error.
Written(t, path) ==
  \E i \in DOMAIN file_ops[t] :
    file_ops[t][i].op = "write" /\ file_ops[t][i].ok /\ file_ops[t][i].path = path

\* Request t touched no file and called no generation or reply API.
Silent(t) ==
  /\ reply_calls[t] = <<>>
  /\ image_api_calls[t] = <<>>
  /\ text_api_calls[t] = <<>>
  /\ file_ops[t] = <<>>

(* ------------------------------ properties ----------------------------- *)

\* C1: for every event the reply API is called with the event's reply
\* token at most once: not at all when no trigger matches, exactly once
\* when a trigger matches with a non-empty prompt.
C1_AtMostOneReply ==
  \A t \in Tokens :
    /\ Len(reply_calls[t]) <= 1
    /\ \A i \in DOMAIN reply_calls[t] : reply_calls[t][i].reply_token = t
    /\ Over(t) =>
         LET txt == Strip(RawText(t))
             image == StartsWith(txt, IMAGE_COMMAND)
             keyword == ~image /\ Contains(txt, trigger_word)
         IN  /\ (~image /\ ~keyword) => Len(reply_calls[t]) = 0
             /\ (image /\ AfterCommand(txt) # <<>>) => Len(reply_calls[t]) = 1

\* C2: the two triggers are mutually exclusive, the image command first: at
\* most one of the two generation APIs is invoked for an event, and a
\* message that starts with the image command never enters the keyword
\* branch (lines 97-118), even when it contains the trigger word.
C2_TriggersExclusive ==
  \A t \in Tokens :
    /\ ~(image_api_calls[t] # <<>> /\ text_api_calls[t] # <<>>)
    /\ StartsWith(RawText(t), IMAGE_COMMAND) =>
         /\ pc[t] \notin {"text_generate", "text_reply", "text_except"}
         /\ text_api_calls[t] = <<>>

\* C3: a generation failure is swallowed and answered with the fixed
\* fallback text of its branch.  When the image generation fails (the API
\* raises or sends no image, the file cannot be opened or written), the
\* except block replies with IMAGE_FALLBACK, no image reply is ever sent
\* and the image API is not called again; when the text API raises, the
\* except block replies with TEXT_FALLBACK and the text API is not called
\* again; an exception leaves handle_message only from a failed fallback
\* reply, never from the generation itself.
C3_GenerationFailureFallback ==
  \A t \in Tokens :
    /\ ImageGenerationFailed(t) =>
         /\ Len(image_api_calls[t]) = 1
         /\ \A i \in DOMAIN reply_calls[t] : Replies(t)[i].type # "image"
         /\ IF pc[t] = "image_except"
            THEN reply_calls[t] = <<>>
            ELSE reply_calls[t] # <<>> /\ Replies(t)[1] = TextSendMessage(IMAGE_FALLBACK)
    /\ TextGenerationFailed(t) =>
         /\ Len(text_api_calls[t]) = 1
         /\ pc[t] # "text_except" =>
              /\ reply_calls[t] # <<>>
              /\ Replies(t)[Len(reply_calls[t])] = TextSendMessage(TEXT_FALLBACK)
    /\ pc[t] \in {"raise", "error500"} =>
         LET last == reply_calls[t][Len(reply_calls[t])]
         IN  /\ reply_calls[t] # <<>>
             /\ ~last.ok
             /\ last.message \in {TextSendMessage(IMAGE_FALLBACK),
                                  TextSendMessage(TEXT_FALLBACK)}

\* C3 witness: one event whose image generation failed and whose text
\* generation failed, each answered with the fallback text of its branch.
C3_Witness ==
  \E t \in Tokens :
    /\ pc[t] = "ok200"
    /\ ImageGenerationFailed(t)
    /\ TextGenerationFailed(t)
    /\ Replies(t) = <<TextSendMessage(IMAGE_FALLBACK), TextSendMessage(TEXT_FALLBACK)>>

\* C4: for a message that starts with the image command and has a non-empty
\* remainder, the image API is invoked with exactly the remainder; when it
\* returns image bytes and every call succeeds, the single reply is the
\* image reply whose two URLs are host_url + "static/" + filename, and the
\* file of that name holds exactly the bytes the API returned.
C4_ImageCommandSingleImageReply ==
  \A t \in Tokens :
    (StartsWith(RawText(t), IMAGE_COMMAND) /\ AfterCommand(RawText(t)) # <<>>) =>
      /\ \A i \in DOMAIN image_api_calls[t] :
           image_api_calls[t][i].prompt = AfterCommand(RawText(t))
      /\ Over(t) => Len(image_api_calls[t]) = 1
      /\ ( /\ Returned(t)
           /\ ~ImageGenerationFailed(t)
           /\ ~TextGenerationFailed(t)
           /\ AllRepliesOk(t) ) =>
           LET url == HostUrl \o "static/" \o filename[t]
           IN  /\ Replies(t) = <<ImageSendMessage(url, url)>>
               /\ filename[t] \in DOMAIN static
               /\ static[filename[t]] = image_api_calls[t][1].result.data

\* C5 as stated: for a message that contains the trigger word and does not
\* start with the image command, the text prompt is the message with the
\* first occurrence of the trigger word removed, trimmed; an empty prompt
\* gives no reply and no text API call, any other prompt is what the text
\* API is invoked with, and on success the reply is the text it returned.
C5_FirstOccurrenceRemoved ==
  \A t \in Tokens :
    (Contains(RawText(t), trigger_word) /\ ~StartsWith(RawText(t), IMAGE_COMMAND)) =>
      LET p == Strip(ReplaceFirst(RawText(t), trigger_word, <<>>))
      IN  /\ \A i \in DOMAIN text_api_calls[t] : text_api_calls[t][i].prompt = p
          /\ p = <<>> => (text_api_calls[t] = <<>> /\ reply_calls[t] = <<>>)
          /\ (p # <<>> /\ Over(t)) => Len(text_api_calls[t]) = 1

\* C5 amended: for a message that contains the trigger word and whose
\* trimmed text does not start with the image command, the text prompt is
\* the message with every occurrence of the trigger word removed (one scan
\* from the left), trimmed; an empty prompt gives no reply and no API call;
\* any other prompt is what the text API is invoked with, exactly once, and
\* when it returns a text the reply that follows carries that text.
C5_EveryOccurrenceRemoved ==
  \A t \in Tokens :
    (Contains(RawText(t), trigger_word) /\ ~StartsWith(Strip(RawText(t)), IMAGE_COMMAND)) =>
      LET p == Strip(ReplaceAll(RawText(t), trigger_word, <<>>))
      IN  /\ image_api_calls[t] = <<>>
          /\ \A i \in DOMAIN text_api_calls[t] : text_api_calls[t][i].prompt = p
          /\ p = <<>> => (text_api_calls[t] = <<>> /\ reply_calls[t] = <<>>)
          /\ (p # <<>> /\ Over(t)) => Len(text_api_calls[t]) = 1
          /\ ( /\ text_api_calls[t] # <<>>
               /\ ~TextGenerationFailed(t)
               /\ pc[t] # "text_reply" ) =>
               /\ reply_calls[t] # <<>>
               /\ Replies(t)[1] = TextSendMessage(text_api_calls[t][1].result.text)
               /\ AllRepliesOk(t) => Len(reply_calls[t]) = 1

\* C5 witness: a message with the trigger word twice around other text was
\* answered with the text the text API returned for the prompt without
\* both occurrences.
C5_Witness ==
  \E t \in Tokens :
    /\ pc[t] = "ok200"
    /\ ~StartsWith(Strip(RawText(t)), IMAGE_COMMAND)
    /\ Contains(ReplaceFirst(RawText(t), trigger_word, <<>>), trigger_word)
    /\ Len(text_api_calls[t]) = 1
    /\ text_api_calls[t][1].prompt # Strip(ReplaceFirst(RawText(t), trigger_word, <<>>))
    /\ Replies(t) = <<TextSendMessage(text_api_calls[t][1].result.text)>>
    /\ text_api_calls[t][1].result.kind = "text"

\* C6 as stated: a message whose text as received neither contains the
\* trigger word nor starts with the image command gets no reply and
\* neither generation API is invoked.
C6_RawTextWithoutTrigger ==
  \A t \in Tokens :
    (~Contains(RawText(t), trigger_word) /\ ~StartsWith(RawText(t), IMAGE_COMMAND)) =>
      (reply_calls[t] = <<>> /\ image_api_calls[t] = <<>> /\ text_api_calls[t] = <<>>)

\* C6 amended: a message whose trimmed text neither contains the trigger
\* word nor starts with the image command gets no reply, neither
\* generation API is invoked, no file is touched and no exception leaves
\* handle_message.
C6_TrimmedTextWithoutTrigger ==
  \A t \in Tokens :
    ( /\ ~Contains(Strip(RawText(t)), trigger_word)
      /\ ~StartsWith(Strip(RawText(t)), IMAGE_COMMAND) ) =>
      /\ Silent(t)
      /\ pc[t] \in {"callback", "handle_message", "keyword", "return", "ok200"}

\* C6 witness: a message that holds the image command, but not at the start
\* of its trimmed text, and no trigger word, was handled to the end.
C6_Witness ==
  \E t \in Tokens :
    /\ pc[t] = "ok200"
    /\ Contains(RawText(t), IMAGE_COMMAND)
    /\ ~StartsWith(Strip(RawText(t)), IMAGE_COMMAND)
    /\ ~Contains(RawText(t), trigger_word)
    /\ Silent(t)

\* C7: a reply call that fails is not caught: the exception leaves
\* handle_message and no further reply call is made for the event.
C7_ReplyFailurePropagates ==
  \A t \in Tokens :
    \A i \in DOMAIN reply_calls[t] :
      ~reply_calls[t][i].ok =>
        /\ i = Len(reply_calls[t])
        /\ pc[t] \in {"raise", "error500"}

\* C8: a message that is the image command followed by whitespace only (or
\* by nothing) is a silent no-op: no reply, no generation API call, no file
\* written, and handle_message returns without an exception.
C8_BareCommandSilent ==
  \A t \in Tokens :
    ( /\ StartsWith(RawText(t), IMAGE_COMMAND)
      /\ \A i \in (Len(IMAGE_COMMAND) + 1)..Len(RawText(t)) : RawText(t)[i] \in Whitespace ) =>
      /\ Silent(t)
      /\ pc[t] \in {"callback", "handle_message", "return", "ok200"}
      /\ DOMAIN static = {OldFile}

\* C8 witness: the image command followed by whitespace was handled to the
\* end.
C8_Witness ==
  \E t \in Tokens :
    /\ pc[t] = "ok200"
    /\ StartsWith(RawText(t), IMAGE_COMMAND)
    /\ Len(RawText(t)) > Len(IMAGE_COMMAND)
    /\ \A i \in (Len(IMAGE_COMMAND) + 1)..Len(RawText(t)) : RawText(t)[i] \in Whitespace
    /\ Silent(t)

\* C9: with every identifier freshly drawn, under every interleaving of the
\* requests no two of them open the same path, no open hits a file that is
\* already there, every file that was in the directory or was created is
\* still there, and a file keeps the content its own request gave it: the
\* file that was there before is untouched, an opened file is empty until
\* its request writes it and holds that request's bytes afterwards.
C9_FreshFilesOnly ==
  /\ \A t \in Tokens :
       \A i \in DOMAIN file_ops[t] :
         LET o == file_ops[t][i]
         IN  /\ (o.op = "open" => ~o.existed)
             /\ (o.op = "open" /\ o.ok) =>
                  /\ o.path \in DOMAIN static
                  /\ o.path # OldFile
                  /\ static[o.path] = IF Written(t, o.path) THEN image_data[t] ELSE ""
                  /\ \A t2 \in Tokens \ {t} : ~Opened(t2, o.path)
  /\ OldFile \in DOMAIN static
  /\ static[OldFile] = "OLD"

\* C9 witness: two requests have each opened a file and neither has
\* written it yet.
C9_Witness ==
  \E t1, t2 \in Tokens :
    /\ t1 # t2
    /\ pc[t1] = "image_write"
    /\ pc[t2] = "image_write"
    /\ Opened(t1, filename[t1])
    /\ Opened(t2, filename[t2])

====
